---- MODULE Spec2Model ----
(***************************************************************************)
(* State-machine model of lang/lang-check.py, the checker of the firmware  *)
(* translation files (lang_en.txt, lang_en_<code>.txt).                    *)
(*                                                                         *)
(* A text is a sequence of one-character strings.  A file is a sequence of *)
(* lines, each line a text that carries its own terminating newline.       *)
(* `run` holds the invocations of the program that are observed on the     *)
(* same file, indexed by the value of their --no-warning flag.             *)
(***************************************************************************)
EXTENDS Integers, Sequences, FiniteSets, TLC

VARIABLES file, exists, run

vars == <<file, exists, run>>

----------------------------------------------------------------------------
(* Characters *)

TAB == "\t"
NL == "\n"
QUOTE == "\""
BACKSLASH == "\\"
\* the character chr(0), which '\x00' decodes to
NUL == "NUL"

Letters == {"a", "b", "c", "r", "x", "n", "t", "M"}
Digits == {"0", "1", "2", "3", "4", "5", "6", "7", "8", "9"}
\* str.isspace / str.strip(): the whitespace characters of the model
Whitespace == {" ", TAB, NL}

\* str.isalnum() on one character
isalnum(c) == c \in Letters \cup Digits

\* regex classes of textwrap.TextWrapper.wordsep_re
IsWordChar(c) == c \in Letters \cup Digits \cup {"_"}
IsLetter(c) == c \in Letters \cup {"_"}
IsWordPunct(c) == IsWordChar(c) \/ c \in {"!", QUOTE, "'", "&", ".", ",", "?"}

----------------------------------------------------------------------------
(* Python string primitives *)

Min(a, b) == IF a < b THEN a ELSE b

\* s[i:j] with 0-based i, j already clipped to 0..len(s)
Slice(s, i, j) == IF j <= i THEN <<>> ELSE SubSeq(s, i + 1, j)

Spaces(n) == [i \in 1..n |-> " "]

\* str.count(c)
count(s, c) == Cardinality({i \in 1..Len(s) : s[i] = c})

\* str.strip(chars): drops every leading and trailing character in chars
RECURSIVE lstrip(_, _)
lstrip(s, chars) ==
    IF s # <<>> /\ Head(s) \in chars THEN lstrip(Tail(s), chars) ELSE s

RECURSIVE rstrip(_, _)
rstrip(s, chars) ==
    IF s # <<>> /\ s[Len(s)] \in chars
    THEN rstrip(SubSeq(s, 1, Len(s) - 1), chars) ELSE s

strip(s, chars) == rstrip(lstrip(s, chars), chars)

\* ''.join(parts)
RECURSIVE join(_)
join(parts) == IF parts = <<>> THEN <<>> ELSE Head(parts) \o join(Tail(parts))

\* str.split(sep) for a one-character separator: always at least one part
RECURSIVE split_from(_, _, _)
split_from(s, sep, cur) ==
    IF s = <<>> THEN <<cur>>
    ELSE IF Head(s) = sep THEN <<cur>> \o split_from(Tail(s), sep, <<>>)
    ELSE split_from(Tail(s), sep, Append(cur, Head(s)))

split(s, sep) == split_from(s, sep, <<>>)

----------------------------------------------------------------------------
(* textwrap.TextWrapper(width=cols).wrap(text), with the library defaults: *)
(* expand_tabs, replace_whitespace, drop_whitespace, break_long_words and  *)
(* break_on_hyphens are on, tabsize is 8, there is no indent or max_lines. *)

\* str.expandtabs(8), col is the current column
RECURSIVE expandtabs(_, _)
expandtabs(text, col) ==
    IF text = <<>> THEN <<>>
    ELSE LET c == Head(text) IN
         IF c = TAB
         THEN LET incr == 8 - (col % 8)
              IN  Spaces(incr) \o expandtabs(Tail(text), col + incr)
         ELSE IF c = NL THEN <<c>> \o expandtabs(Tail(text), 0)
         ELSE <<c>> \o expandtabs(Tail(text), col + 1)

\* TextWrapper._munge_whitespace
munge_whitespace(text) ==
    LET t == expandtabs(text, 0)
    IN  [i \in 1..Len(t) |-> IF t[i] \in Whitespace THEN " " ELSE t[i]]

\* the character at 1-based position i, "" outside the text
At(text, i) == IF i >= 1 /\ i <= Len(text) THEN text[i] ELSE ""

\* length of the run of characters of class cs starting at i
RECURSIVE RunLen(_, _, _)
RunLen(text, i, cs) ==
    IF At(text, i) \in cs THEN 1 + RunLen(text, i + 1, cs) ELSE 0

\* -{2,}\w matches at position j
EmDashAt(text, j) ==
    LET h == RunLen(text, j, {"-"})
    IN  h >= 2 /\ IsWordChar(At(text, j + h))

\* the "hyphenated word" alternative of wordsep_re with its hyphen at j
HyphenBreakAt(text, j) ==
    /\ At(text, j) = "-"
    /\ \/ IsLetter(At(text, j - 2)) /\ IsLetter(At(text, j - 1))
       \/ /\ IsLetter(At(text, j - 3)) /\ At(text, j - 2) = "-"
          /\ IsLetter(At(text, j - 1))
    /\ IsLetter(At(text, j + 1))
    /\ \/ IsLetter(At(text, j + 2))
       \/ At(text, j + 2) = "-" /\ IsLetter(At(text, j + 3))

\* length of the match of the "word" alternative at i, having taken n >= 1
\* characters lazily
RECURSIVE WordLen(_, _, _)
WordLen(text, i, n) ==
    LET j == i + n IN
    IF HyphenBreakAt(text, j) THEN n + 1
    ELSE IF j > Len(text) \/ At(text, j) = " " THEN n
    ELSE IF IsWordPunct(At(text, j - 1)) /\ EmDashAt(text, j) THEN n
    ELSE WordLen(text, i, n + 1)

\* length of the match of wordsep_re at position i of a munged text
ChunkLen(text, i) ==
    IF At(text, i) = " " THEN RunLen(text, i, {" "})
    ELSE IF IsWordPunct(At(text, i - 1)) /\ EmDashAt(text, i)
    THEN RunLen(text, i, {"-"})
    ELSE WordLen(text, i, 1)

\* TextWrapper._split: wordsep_re.split(text) without the empty strings
RECURSIVE split_at(_, _)
split_at(text, i) ==
    IF i > Len(text) THEN <<>>
    ELSE LET n == ChunkLen(text, i)
         IN  <<SubSeq(text, i, i + n - 1)>> \o split_at(text, i + n)

split_chunks(text) == split_at(munge_whitespace(text), 1)

\* chunk.strip() == ''
IsBlank(chunk) == \A i \in 1..Len(chunk) : chunk[i] \in Whitespace

\* the number of leading chunks that fit on a line that already holds cur_len
RECURSIVE Fill(_, _, _)
Fill(chunks, width, cur_len) ==
    IF chunks # <<>> /\ cur_len + Len(Head(chunks)) <= width
    THEN 1 + Fill(Tail(chunks), width, cur_len + Len(Head(chunks)))
    ELSE 0

\* chunk.rfind('-', 0, stop), 0-based, -1 when absent
rfind_hyphen(chunk, stop) ==
    LET hs == {i \in 1..Min(stop, Len(chunk)) : chunk[i] = "-"}
    IN  IF hs = {} THEN 0 - 1
        ELSE (CHOOSE i \in hs : \A k \in hs : k <= i) - 1

\* TextWrapper._handle_long_word: where the too-long chunk is cut
long_word_end(chunk, space_left) ==
    LET hyphen == rfind_hyphen(chunk, space_left)
    IN  IF Len(chunk) > space_left /\ hyphen > 0
           /\ \E i \in 1..hyphen : chunk[i] # "-"
        THEN hyphen + 1
        ELSE space_left

\* wrap_chunks dropping the first chunk of every line after the first,
\* whitespace or not
RECURSIVE wrap_chunks_drop(_, _, _)
wrap_chunks_drop(chunks0, width, started) ==
    IF chunks0 = <<>> THEN <<>>
    ELSE
    LET chunks == IF started THEN Tail(chunks0) ELSE chunks0
        k == Fill(chunks, width, 0)
        fitted == SubSeq(chunks, 1, k)
        rest == SubSeq(chunks, k + 1, Len(chunks))
        cur_len == Len(join(fitted))
        long == rest # <<>> /\ Len(Head(rest)) > width
        end == IF long THEN long_word_end(Head(rest), width - cur_len) ELSE 0
        cur_line == IF long THEN Append(fitted, Slice(Head(rest), 0, end))
                    ELSE fitted
        left == IF long
                THEN <<Slice(Head(rest), end, Len(Head(rest)))>> \o Tail(rest)
                ELSE rest
        kept == IF cur_line # <<>> /\ IsBlank(cur_line[Len(cur_line)])
                THEN SubSeq(cur_line, 1, Len(cur_line) - 1) ELSE cur_line
    IN  IF kept # <<>>
        THEN <<join(kept)>> \o wrap_chunks_drop(left, width, TRUE)
        ELSE wrap_chunks_drop(left, width, started)

\* wrap_chunks that never breaks a chunk: one that is longer than the width
\* gets a line of its own
RECURSIVE wrap_chunks_keep_long(_, _, _)
wrap_chunks_keep_long(chunks0, width, started) ==
    IF chunks0 = <<>> THEN <<>>
    ELSE
    LET chunks == IF IsBlank(Head(chunks0)) /\ started
                  THEN Tail(chunks0) ELSE chunks0
        k == Fill(chunks, width, 0)
        fitted == SubSeq(chunks, 1, k)
        rest == SubSeq(chunks, k + 1, Len(chunks))
        long == rest # <<>> /\ Len(Head(rest)) > width /\ fitted = <<>>
        cur_line == IF long THEN <<Head(rest)>> ELSE fitted
        left == IF long THEN Tail(rest) ELSE rest
        kept == IF cur_line # <<>> /\ IsBlank(cur_line[Len(cur_line)])
                THEN SubSeq(cur_line, 1, Len(cur_line) - 1) ELSE cur_line
    IN  IF kept # <<>>
        THEN <<join(kept)>> \o wrap_chunks_keep_long(left, width, TRUE)
        ELSE wrap_chunks_keep_long(left, width, started)

\* TextWrapper._wrap_chunks; started says whether a line has been produced
RECURSIVE wrap_chunks(_, _, _)
wrap_chunks(chunks0, width, started) ==
    IF chunks0 = <<>> THEN <<>>
    ELSE
    LET chunks == IF IsBlank(Head(chunks0)) /\ started
                  THEN Tail(chunks0) ELSE chunks0
        k == Fill(chunks, width, 0)
        fitted == SubSeq(chunks, 1, k)
        rest == SubSeq(chunks, k + 1, Len(chunks))
        cur_len == Len(join(fitted))
        long == rest # <<>> /\ Len(Head(rest)) > width
        end == IF long THEN long_word_end(Head(rest), width - cur_len) ELSE 0
        cur_line == IF long THEN Append(fitted, Slice(Head(rest), 0, end))
                    ELSE fitted
        left == IF long
                THEN <<Slice(Head(rest), end, Len(Head(rest)))>> \o Tail(rest)
                ELSE rest
        kept == IF cur_line # <<>> /\ IsBlank(cur_line[Len(cur_line)])
                THEN SubSeq(cur_line, 1, Len(cur_line) - 1) ELSE cur_line
    IN  IF kept # <<>>
        THEN <<join(kept)>> \o wrap_chunks(left, width, TRUE)
        ELSE wrap_chunks(left, width, started)

\* TextWrapper(width).wrap(text), for width >= 1
wrap(text, width) == wrap_chunks(split_chunks(text), width, FALSE)

----------------------------------------------------------------------------
(* Values *)

\* Python's None, and a value that is not None
None == <<>>
Some(v) == <<v>>
Val(o) == o[1]

\* the result of a computation that may raise an exception
Ok(v) == [raised |-> FALSE, value |-> v]
Raise == [raised |-> TRUE, value |-> <<>>]

\* one printed diagnostic: the severity tag, which message, the line number
\* it reports and the values shown in it; frame is the loop iteration that
\* printed it (history, not program state)
Diag(sev, kind, line, shown, frame) ==
    [sev |-> sev, kind |-> kind, line |-> line, shown |-> shown,
     frame |-> frame]

----------------------------------------------------------------------------
(* unescape, lines 64-67 *)

HexDigits == <<"0", "1", "2", "3", "4", "5", "6", "7", "8", "9",
               "a", "b", "c", "d", "e", "f">>

\* chr(n) for the character codes the model distinguishes; any other code
\* is one further character that is neither alphanumeric nor whitespace
chr(n) ==
    CASE n = 0 -> NUL
      [] n = 9 -> TAB
      [] n = 10 -> NL
      [] n = 32 -> " "
      [] n = 33 -> "!"
      [] n = 34 -> QUOTE
      [] n = 37 -> "%"
      [] n = 39 -> "'"
      [] n = 45 -> "-"
      [] n = 46 -> "."
      [] n \in 48..57 -> HexDigits[n - 47]
      [] n = 63 -> "?"
      [] n = 92 -> BACKSLASH
      [] n \in 97..99 -> HexDigits[n - 86]
      [] OTHER -> "chr"

IsHex(c) == \E i \in 1..16 : HexDigits[i] = c
HexVal(c) == (CHOOSE i \in 1..16 : HexDigits[i] = c) - 1
IsOctal(c) == \E i \in 1..8 : HexDigits[i] = c

\* bytes.decode('unicode_escape'): the one-letter escapes, \xhh and \ooo are
\* decoded, an unknown escape is kept as it is, a backslash at the end of
\* the text or a truncated \x escape raises UnicodeDecodeError
RECURSIVE decode_escapes(_)
decode_escapes(text) ==
    IF text = <<>> THEN Ok(<<>>)
    ELSE IF Head(text) # BACKSLASH
    THEN LET r == decode_escapes(Tail(text))
         IN  IF r.raised THEN Raise ELSE Ok(<<Head(text)>> \o r.value)
    ELSE IF Len(text) = 1 THEN Raise
    ELSE
    LET e == text[2]
        after(n) == SubSeq(text, n + 1, Len(text))
        cont(c, n) == LET r == decode_escapes(after(n))
                      IN  IF r.raised THEN Raise ELSE Ok(c \o r.value)
        oct(i) == HexVal(text[i])
    IN  IF e \in {BACKSLASH, QUOTE, "'"} THEN cont(<<e>>, 2)
        ELSE IF e = "n" THEN cont(<<NL>>, 2)
        ELSE IF e = "t" THEN cont(<<TAB>>, 2)
        ELSE IF e \in {"a", "b", "f", "r", "v"} THEN cont(<<"chr">>, 2)
        ELSE IF e = NL THEN cont(<<>>, 2)
        ELSE IF e = "x"
        THEN IF IsHex(At(text, 3)) /\ IsHex(At(text, 4))
             THEN cont(<<chr(16 * HexVal(text[3]) + HexVal(text[4]))>>, 4)
             ELSE Raise
        ELSE IF IsOctal(e)
        THEN IF IsOctal(At(text, 3)) /\ IsOctal(At(text, 4))
             THEN cont(<<chr(64 * oct(2) + 8 * oct(3) + oct(4))>>, 4)
             ELSE IF IsOctal(At(text, 3))
             THEN cont(<<chr(8 * oct(2) + oct(3))>>, 3)
             ELSE cont(<<chr(oct(2))>>, 2)
        ELSE cont(<<BACKSLASH, e>>, 2)

unescape(text) ==
    IF \A i \in 1..Len(text) : text[i] # BACKSLASH THEN Ok(text)
    ELSE decode_escapes(text)

\* lines 69-73
ign_char_first(c) == isalnum(c) \/ c \in {"%", "?"}

ign_char_last(c) == isalnum(c) \/ c \in {".", "'"}

----------------------------------------------------------------------------
(* The display definition, lines 88-113 *)

RECURSIVE digits_value(_)
digits_value(ds) ==
    IF ds = <<>> THEN 0
    ELSE 10 * digits_value(SubSeq(ds, 1, Len(ds) - 1)) + HexVal(ds[Len(ds)])

\* int(val): surrounding whitespace is ignored, a sign may precede the
\* digits; anything else raises ValueError
int(val) ==
    LET t == strip(val, Whitespace)
        neg == t # <<>> /\ Head(t) = "-"
        ds == IF t # <<>> /\ Head(t) \in {"-", "+"} THEN Tail(t) ELSE t
    IN  IF ds # <<>> /\ \A i \in 1..Len(ds) : ds[i] \in Digits
        THEN Ok(IF neg THEN 0 - digits_value(ds) ELSE digits_value(ds))
        ELSE Raise

\* the loop of lines 94-105 over comment[1:]; the value is <<cols, rows>>
RECURSIVE parse_items(_, _, _)
parse_items(items, cols, rows) ==
    IF items = <<>> THEN Ok(<<cols, rows>>)
    ELSE
    LET kv == split(Head(items), "=") IN
    IF Len(kv) # 2 THEN Raise
    ELSE IF kv[1] = <<"c">>
    THEN LET v == int(kv[2])
         IN  IF v.raised THEN Raise
             ELSE parse_items(Tail(items), Some(v.value), rows)
    ELSE IF kv[1] = <<"r">>
    THEN LET v == int(kv[2])
         IN  IF v.raised THEN Raise
             ELSE parse_items(Tail(items), cols, Some(v.value))
    ELSE Raise

\* lines 106-113: the defaults and the warnings about the definition;
\* translation is the variable as the previous iteration left it
\* (None while it is unbound).  out is what is printed, also when it raises
display_definition(cols0, rows0, translation, no_warning, lines, frame) ==
    LET missing == cols0 = None /\ rows0 = None
        w1 == IF missing /\ ~no_warning
              THEN <<Diag("W", "NoDefinition", lines, <<>>, frame)>> ELSE <<>>
        cols == IF missing /\ translation # None
                THEN Some(Len(Val(translation))) ELSE cols0
        rows == IF rows0 = None THEN 1 ELSE Val(rows0)
        w2 == IF rows0 # None /\ rows > 1 /\ cols # Some(20)
              THEN <<Diag("W", "OddColumns", lines, <<>>, frame)>> ELSE <<>>
    IN  IF missing /\ translation = None
        THEN [raised |-> TRUE, cols |-> cols0, rows |-> 1, out |-> w1]
        ELSE [raised |-> FALSE, cols |-> cols, rows |-> rows,
              out |-> w1 \o w2]

----------------------------------------------------------------------------
(* The checks of one record, lines 134-181 *)

\* lines 135-143
check_source(cols, rows, source, wrapped_source, no_warning, lines, frame) ==
    IF no_warning THEN <<>>
    ELSE IF rows = 1 /\ (Len(source) > cols \/ Len(wrapped_source) > rows)
    THEN <<Diag("W", "SourceLonger", lines, <<cols>>, frame)>>
    ELSE IF Len(wrapped_source) > rows
    THEN <<Diag("W", "WrappedSourceLonger", lines, <<rows>>, frame)>>
    ELSE <<>>

\* check_length with the single-row length test left out
check_length_rows_only(cols, rows, translation, wrapped_translation, lines, frame) ==
    IF Len(wrapped_translation) > rows
    THEN <<Diag("E", "TextLonger", lines,
                <<cols, rows, Len(wrapped_translation) - rows>>, frame)>>
    ELSE <<>>

\* lines 146-151
check_length(cols, rows, translation, wrapped_translation, lines, frame) ==
    IF \/ Len(wrapped_translation) > rows
       \/ rows = 1 /\ Len(translation) > cols
    THEN <<Diag("E", "TextLonger", lines,
                <<cols, rows, Len(wrapped_translation) - rows>>, frame)>>
    ELSE <<>>

\* check_percent without the test for an empty translation
check_percent_unguarded(source, translation, lines, frame) ==
    IF count(source, "%") # count(translation, "%")
    THEN <<Diag("E", "UnequalPercent", lines, <<>>, frame)>>
    ELSE <<>>

\* lines 154-158
check_percent(source, translation, lines, frame) ==
    IF count(source, "%") # count(translation, "%") /\ Len(translation) > 0
    THEN <<Diag("E", "UnequalPercent", lines, <<>>, frame)>>
    ELSE <<>>

\* lines 161-173; indexing the empty string raises IndexError
check_punctuation(source, translation, no_warning, lines, frame) ==
    IF ~(~no_warning /\ Len(source) > 0 /\ Len(translation) > 0)
    THEN [raised |-> FALSE, out |-> <<>>]
    ELSE
    LET s == strip(source, Whitespace)
        t == strip(translation, Whitespace)
    IN  IF s = <<>> \/ t = <<>> THEN [raised |-> TRUE, out |-> <<>>]
        ELSE
        LET source_end == s[Len(s)]
            translation_end == t[Len(t)]
            start_diff ==
                /\ ~(ign_char_first(source[1]) /\ ign_char_first(translation[1]))
                /\ source[1] # translation[1]
            end_diff ==
                /\ ~(ign_char_last(source_end) /\ ign_char_last(translation_end))
                /\ source_end # translation_end
            first == IF start_diff
                     THEN <<Diag("W", "FirstPunctuation", lines,
                                 <<source[1], translation[1]>>, frame)>>
                     ELSE <<>>
            last == IF end_diff
                    THEN <<Diag("W", "LastPunctuation", lines,
                                <<source[Len(source)],
                                  translation[Len(translation)]>>, frame)>>
                    ELSE <<>>
        IN  [raised |-> FALSE, out |-> first \o last]

\* check_short without the test for an empty translation
check_short_unguarded(source, translation, no_warning, lines, frame) ==
    IF /\ ~no_warning /\ Len(source) > 0
       /\ 2 * Len(strip(translation, Whitespace))
            < Len(strip(source, Whitespace))
    THEN <<Diag("W", "ShortTranslation", lines, <<>>, frame)>>
    ELSE <<>>

\* lines 176-181
check_short(source, translation, no_warning, lines, frame) ==
    IF /\ ~no_warning /\ Len(source) > 0 /\ Len(translation) > 0
       /\ 2 * Len(strip(translation, Whitespace))
            < Len(strip(source, Whitespace))
    THEN <<Diag("W", "ShortTranslation", lines, <<>>, frame)>>
    ELSE <<>>

\* checks with the placeholder count tested before the source length
checks_percent_first(cols, rows, source, translation, wrapped_source, wrapped_translation, no_warning, lines, frame) ==
    LET before ==
            check_percent(source, translation, lines, frame)
            \o check_source(cols, rows, source, wrapped_source, no_warning,
                            lines, frame)
            \o check_length(cols, rows, translation, wrapped_translation,
                            lines, frame)
        p == check_punctuation(source, translation, no_warning, lines, frame)
    IN  IF p.raised THEN [raised |-> TRUE, out |-> before]
        ELSE [raised |-> FALSE,
              out |-> before \o p.out
                      \o check_short(source, translation, no_warning, lines,
                                     frame)]

\* lines 134-181 in the order of the code; what was printed before an
\* exception stays printed
checks(cols, rows, source, translation, wrapped_source, wrapped_translation, no_warning, lines, frame) ==
    LET before ==
            check_source(cols, rows, source, wrapped_source, no_warning,
                         lines, frame)
            \o check_length(cols, rows, translation, wrapped_translation,
                            lines, frame)
            \o check_percent(source, translation, lines, frame)
        p == check_punctuation(source, translation, no_warning, lines, frame)
    IN  IF p.raised THEN [raised |-> TRUE, out |-> before]
        ELSE [raised |-> FALSE,
              out |-> before \o p.out
                      \o check_short(source, translation, no_warning, lines,
                                     frame)]

----------------------------------------------------------------------------
(* The input files *)

\* the frames a file of the main specification may hold
MaxFrames == 2
\* the longest source or translation text of the one-record files
MaxTextLen == 3
\* the largest column count and row count of the one-record files
MaxCols == 3
MaxRows == 2
\* the longest text and the largest width of the files that exercise the
\* text wrapper
MaxWrapLen == 5
MaxWidth == 3

\* str(n) for n >= 0
RECURSIVE IntStr(_)
IntStr(n) ==
    IF n < 10 THEN <<HexDigits[n + 1]>>
    ELSE IntStr(n \div 10) \o <<HexDigits[(n % 10) + 1]>>

Item(key, n) == <<key, "=">> \o IntStr(n)

\* the directive line "#M item item ..."
DirLine(items) ==
    <<"#", "M">> \o join([i \in 1..Len(items) |-> <<" ">> \o items[i]])
        \o <<NL>>

\* a source or translation line holding the raw text
TextLine(raw) == <<QUOTE>> \o raw \o <<QUOTE, NL>>

Frame(items, source, translation) ==
    <<DirLine(items), TextLine(source), TextLine(translation)>>

BlankLine == <<NL>>

\* frames separated by blank lines, with or without a blank line at the end
RECURSIVE FileOf(_, _)
FileOf(frames, trailing) ==
    IF frames = <<>> THEN trailing
    ELSE IF Len(frames) = 1 THEN frames[1] \o trailing
    ELSE frames[1] \o <<BlankLine>> \o FileOf(Tail(frames), trailing)

\* all texts over an alphabet up to a length
Texts(alphabet, n) == UNION {[1..k -> alphabet] : k \in 0..n}

SENTINEL == <<BACKSLASH, "x", "0", "0">>

\* the frames of the main specification: a clean one, and one for each
\* diagnostic and each failure of the parser
Frames ==
    { Frame(<<Item("c", 20), Item("r", 1)>>, <<"a", "b">>, <<"a", "b">>),
      Frame(<<Item("c", 2), Item("r", 2)>>, <<"a", "b">>, <<"a", "b">>),
      Frame(<<Item("c", 2), Item("r", 1)>>, <<"a", "%", "b">>,
            <<"a", "b", "c">>),
      Frame(<<Item("c", 20), Item("r", 1)>>, <<" ", " ">>, <<"a", "b">>),
      Frame(<<Item("x", 1)>>, <<"a", "b">>, <<"a", "b">>),
      Frame(<<>>, <<"a", "b">>, <<"a", "b">>),
      Frame(<<Item("c", 20), Item("r", 1)>>, <<"a", "b">>, SENTINEL),
      Frame(<<Item("c", 20), Item("r", 1)>>, <<"a", "b", "c", "!">>,
            <<"a">>),
      Frame(<<Item("r", 1)>>, <<"a", "b">>, <<"a", "b">>),
      Frame(<<Item("c", 2)>>, <<"a", "b">>, <<"a", "b">>),
      Frame(<<Item("c", 20), Item("r", 1)>>, <<"a", BACKSLASH, QUOTE>>,
            <<"a", "b">>) }

Files ==
    { FileOf(fs, trailing) :
        fs \in UNION {[1..k -> Frames] : k \in 0..MaxFrames},
        trailing \in {<<>>, <<BlankLine>>} }

\* the frames of the files that end anywhere: a clean one, one without
\* display definition, one with an unknown key, one whose checks raise and
\* one with the reserved empty translation
LiveFrames ==
    { Frame(<<Item("c", 20), Item("r", 1)>>, <<"a", "b">>, <<"a", "b">>),
      Frame(<<>>, <<"a", "b">>, <<"a", "b">>),
      Frame(<<Item("x", 1)>>, <<"a", "b">>, <<"a", "b">>),
      Frame(<<Item("c", 20), Item("r", 1)>>, <<" ", " ">>, <<"a", "b">>),
      Frame(<<Item("c", 20), Item("r", 1)>>, <<"a", "b">>, SENTINEL) }

LiveFiles ==
    { FileOf(fs, trailing) :
        fs \in UNION {[1..k -> LiveFrames] : k \in 0..MaxFrames},
        trailing \in {<<>>, <<BlankLine>>} }

\* the first n lines of a file (all of them when it has fewer), the last of
\* them without its last cut characters (a line keeps at least one)
Truncated(f, n, cut) ==
    LET m == Min(n, Len(f))
    IN  [i \in 1..m |->
            IF i = m
            THEN SubSeq(f[i], 1, Len(f[i]) - Min(cut, Len(f[i]) - 1))
            ELSE f[i]]

\* every file of at most MaxFrames frames cut off after any line or at most
\* two characters before the end of a line; the empty file is one of them
TruncatedFiles ==
    { Truncated(f, n, cut) :
        f \in LiveFiles, n \in 0..(4 * MaxFrames), cut \in 0..2 }

TextAlphabet == {"a", " ", "%", TAB}

\* texts that fire each check against some text over TextAlphabet
Samples ==
    { <<>>, <<"a">>, <<"a", "!">>, <<"%", "a", "%", "a", "!">> }

\* the files of one record with a complete display definition: every text
\* over TextAlphabet on one side, a sample on the other (for the
\* translation also the reserved empty-translation line)
RecordFiles ==
    { Frame(<<Item("c", c), Item("r", r)>>, st[1], st[2]) :
        c \in 1..MaxCols, r \in 1..MaxRows,
        st \in (Texts(TextAlphabet, MaxTextLen) \X (Samples \cup {SENTINEL}))
                \cup (Samples \X Texts(TextAlphabet, MaxTextLen)) }

WrapAlphabet == {"a", "-", " ", TAB}

\* the files of one single-row record whose source, or whose translation,
\* is any text over WrapAlphabet
WrapFiles ==
    { Frame(<<Item("c", w), Item("r", 1)>>,
            IF side = "source" THEN text ELSE <<"a">>,
            IF side = "source" THEN <<"a">> ELSE text) :
        w \in 1..MaxWidth, text \in Texts(WrapAlphabet, MaxWrapLen),
        side \in {"source", "translation"} }

----------------------------------------------------------------------------
(* The program *)

\* file.readline() at position pos (the number of lines read so far)
readline(pos) == IF pos < Len(file) THEN file[pos + 1] ELSE <<>>
advance(pos, n) == Min(pos + n, Len(file))

\* s[:-1]
drop_last(s) == IF s = <<>> THEN s ELSE SubSeq(s, 1, Len(s) - 1)

\* lines 116-121: the text of a source or translation line
source_text(line) == strip(drop_last(line), {QUOTE})

translation_text(line) ==
    LET t == strip(drop_last(line), {QUOTE})
    IN  IF t = SENTINEL THEN <<>> ELSE t

\* an invocation before main() runs
NotStarted ==
    [pc |-> "start", pos |-> 0, lines |-> 0, frame |-> 0, at |-> 0,
     cols |-> None, rows |-> None, source |-> None, translation |-> None,
     wrapped_source |-> <<>>, wrapped_translation |-> <<>>,
     out |-> <<>>, status |-> None]

\* an exception leaves parse_txt: everything printed so far stays printed
Raised(r, printed) == [r EXCEPT !.pc = "except", !.out = r.out \o printed]

\* lines 76-86: parse_txt up to the loop; open() raises when there is no file
Open(nw) ==
    /\ run[nw].pc = "start"
    /\ run' = [run EXCEPT ![nw] =
                 IF exists
                 THEN [@ EXCEPT !.pc = "parse", !.lines = 1]
                 ELSE Raised(@, <<>>)]
    /\ UNCHANGED <<file, exists>>

\* lines 88-131: one frame is read, its display definition and texts parsed
\* and the texts wrapped.  History: frame counts the iterations begun, at is
\* the 1-based file line the directive was read from (0 at end of file)
parse_frame(r0, no_warning) ==
    LET r == [r0 EXCEPT !.frame = r0.frame + 1,
                        !.at = IF r0.pos < Len(file) THEN r0.pos + 1 ELSE 0]
        comment == split(readline(r.pos), " ")
        items == parse_items(Tail(comment), None, None)
        def == display_definition(items.value[1], items.value[2],
                                  r.translation, no_warning, r.lines, r.frame)
        source == unescape(source_text(readline(advance(r.pos, 1))))
        translation ==
            unescape(translation_text(readline(advance(r.pos, 2))))
    IN  IF items.raised THEN Raised([r EXCEPT !.pos = advance(r.pos, 1)], <<>>)
        ELSE IF def.raised
        THEN Raised([r EXCEPT !.pos = advance(r.pos, 1)], def.out)
        ELSE IF \/ source.raised \/ translation.raised
                \/ def.cols = None \/ Val(def.cols) <= 0
        THEN Raised([r EXCEPT !.pos = advance(r.pos, 3),
                              !.cols = def.cols, !.rows = Some(def.rows)],
                    def.out)
        ELSE [r EXCEPT !.pc = "check", !.pos = advance(r.pos, 3),
                       !.cols = def.cols, !.rows = Some(def.rows),
                       !.source = Some(source.value),
                       !.translation = Some(translation.value),
                       !.wrapped_source = wrap(source.value, Val(def.cols)),
                       !.wrapped_translation =
                           wrap(translation.value, Val(def.cols)),
                       !.out = r.out \o def.out]

ParseFrame(nw) ==
    /\ run[nw].pc = "parse"
    /\ run' = [run EXCEPT ![nw] = parse_frame(@, nw)]
    /\ UNCHANGED <<file, exists>>

\* next_frame counting the three lines the iteration parsed, not the four
\* it read
next_frame_three(r) ==
    IF Len(readline(r.pos)) # 1
    THEN [r EXCEPT !.pc = "end", !.pos = advance(r.pos, 1)]
    ELSE [r EXCEPT !.pc = "parse", !.pos = advance(r.pos, 1),
                   !.lines = r.lines + 3]

\* next_frame reading on until a blank line comes instead of leaving the
\* loop: at the end of the file it never does
next_frame_spin(r) ==
    IF Len(readline(r.pos)) # 1
    THEN [r EXCEPT !.pc = "spin", !.pos = advance(r.pos, 1)]
    ELSE [r EXCEPT !.pc = "parse", !.pos = advance(r.pos, 1),
                   !.lines = r.lines + 4]

\* lines 183-185: the separator is read; the counter advances by a frame
next_frame(r) ==
    IF Len(readline(r.pos)) # 1
    THEN [r EXCEPT !.pc = "end", !.pos = advance(r.pos, 1)]
    ELSE [r EXCEPT !.pc = "parse", !.pos = advance(r.pos, 1),
                   !.lines = r.lines + 4]

\* lines 134-185: the record is checked, then the loop goes on or ends
check_frame(r, no_warning) ==
    LET c == checks(Val(r.cols), Val(r.rows), Val(r.source),
                    Val(r.translation), r.wrapped_source,
                    r.wrapped_translation, no_warning, r.lines, r.frame)
    IN  IF c.raised THEN Raised(r, c.out)
        ELSE next_frame([r EXCEPT !.out = r.out \o c.out])

CheckFrame(nw) ==
    /\ run[nw].pc = "check"
    /\ run' = [run EXCEPT ![nw] = check_frame(@, nw)]
    /\ UNCHANGED <<file, exists>>

\* lines 186, 204 and 212: parse_txt returns, main returns 0
Return(nw) ==
    /\ run[nw].pc = "end"
    /\ run' = [run EXCEPT ![nw] = [@ EXCEPT !.pc = "exited",
                                              !.status = Some(0)]]
    /\ UNCHANGED <<file, exists>>

\* lines 205-207: main catches the exception; parser.error() prints the
\* usage message and exits the process with status 2
Except(nw) ==
    /\ run[nw].pc = "except"
    /\ run' = [run EXCEPT ![nw] = [@ EXCEPT !.pc = "aborted",
                                              !.status = Some(2)]]
    /\ UNCHANGED <<file, exists>>

Next ==
    \/ \E nw \in DOMAIN run : Open(nw)
    \/ \E nw \in DOMAIN run : ParseFrame(nw)
    \/ \E nw \in DOMAIN run : CheckFrame(nw)
    \/ \E nw \in DOMAIN run : Return(nw)
    \/ \E nw \in DOMAIN run : Except(nw)

\* both invocations, with and without --no-warning, on any file
Init ==
    /\ \/ exists = TRUE /\ file \in Files
       \/ exists = FALSE /\ file = <<>>
    /\ run = [nw \in BOOLEAN |-> NotStarted]

Spec == Init /\ [][Next]_vars

\* one invocation on a file of one record
InitRecord ==
    /\ exists = TRUE
    /\ file \in RecordFiles
    /\ \E nw \in BOOLEAN : run = [x \in {nw} |-> NotStarted]

SpecRecord == InitRecord /\ [][Next]_vars

\* one invocation with warnings enabled on a file that exercises the wrapper
InitWrap ==
    /\ exists = TRUE
    /\ file \in WrapFiles
    /\ run = [x \in {FALSE} |-> NotStarted]

SpecWrap == InitWrap /\ [][Next]_vars

\* one invocation on a file that may end anywhere
InitTruncated ==
    /\ exists = TRUE
    /\ file \in TruncatedFiles
    /\ \E nw \in BOOLEAN : run = [x \in {nw} |-> NotStarted]

SpecTruncated == InitTruncated /\ [][Next]_vars

----------------------------------------------------------------------------
(* Vocabulary of the properties *)

\* the invocation has left the process
Finished(r) == r.pc \in {"exited", "aborted"}

HasKind(out, kind) == \E i \in 1..Len(out) : out[i].kind = kind

IsError(d) == d.sev = "E"

\* the Error diagnostics of an output with the line numbers they report
Errors(out) ==
    LET es == SelectSeq(out, IsError)
    IN  [i \in 1..Len(es) |-> <<es[i].kind, es[i].line>>]

\* the number of frames of a file made of frames and blank separators
FrameCount == (Len(file) + 1) \div 4

\* frame i of the file has a display definition with positive c and r and
\* source and translation texts that decode
ValidFrame(i) ==
    LET items == parse_items(Tail(split(file[4 * i - 3], " ")), None, None)
    IN  /\ ~items.raised
        /\ items.value[1] # None /\ Val(items.value[1]) > 0
        /\ items.value[2] # None /\ Val(items.value[2]) > 0
        /\ ~unescape(source_text(file[4 * i - 2])).raised
        /\ ~unescape(translation_text(file[4 * i - 1])).raised

----------------------------------------------------------------------------
(* C1: with --no-warning no Warning-severity diagnostic is printed, for any *)
(* file and any frame.                                                      *)
C1_NoWarningSilent ==
    TRUE \in DOMAIN run =>
        \A i \in 1..Len(run[TRUE].out) : run[TRUE].out[i].sev # "W"

(* C2: the invocation with --no-warning and the one without it print the    *)
(* same Error diagnostics, with the same line numbers, and end the same     *)
(* way (completed or fatal).                                                *)
C2_SameErrors ==
    (DOMAIN run = BOOLEAN /\ Finished(run[TRUE]) /\ Finished(run[FALSE])) =>
        /\ Errors(run[TRUE].out) = Errors(run[FALSE].out)
        /\ run[TRUE].pc = run[FALSE].pc

(* C3: a fatal failure (unknown directive key, decode error, no file) ends  *)
(* the process with exit status 1.                                          *)
C3_FatalExitsOne ==
    \A nw \in DOMAIN run :
        run[nw].pc = "aborted" => run[nw].status = Some(1)

(* C4: on a file whose frames all have valid c and r and decodable texts    *)
(* the run never aborts, whatever the texts and the warning flag are, and   *)
(* the process exits with status 0.                                         *)
C4_ContentNeverFatal ==
    (exists /\ FrameCount >= 1 /\ \A i \in 1..FrameCount : ValidFrame(i)) =>
        \A nw \in DOMAIN run :
            /\ run[nw].pc \notin {"except", "aborted"}
            /\ Finished(run[nw]) => run[nw].status = Some(0)

----------------------------------------------------------------------------
(* Properties of the checks of one record *)

\* the checks of the invocation's first record have run (to their end or to
\* an exception)
Checked(r) ==
    /\ r.pc \in {"end", "except", "exited", "aborted"}
    /\ r.frame = 1
    /\ r.source # None

\* the diagnostics of the five checks
CheckKinds ==
    {"SourceLonger", "WrappedSourceLonger", "TextLonger", "UnequalPercent",
     "FirstPunctuation", "LastPunctuation", "ShortTranslation"}

\* position of a check in the order the code runs them
CodeOrder ==
    [kind \in CheckKinds |->
        CASE kind \in {"SourceLonger", "WrappedSourceLonger"} -> 1
          [] kind = "TextLonger" -> 2
          [] kind = "UnequalPercent" -> 3
          [] kind \in {"FirstPunctuation", "LastPunctuation"} -> 4
          [] OTHER -> 5]

\* position of a check in the order the specification lists them
ListedOrder ==
    [kind \in CheckKinds |->
        CASE kind = "TextLonger" -> 1
          [] kind \in {"SourceLonger", "WrappedSourceLonger"} -> 2
          [] kind = "UnequalPercent" -> 3
          [] kind \in {"FirstPunctuation", "LastPunctuation"} -> 4
          [] OTHER -> 5]

\* the diagnostics of the checks of each frame are printed in the order
\* that rank gives
InOrder(out, rank) ==
    \A i, j \in 1..Len(out) :
        (i < j /\ out[i].frame = out[j].frame
         /\ out[i].kind \in CheckKinds /\ out[j].kind \in CheckKinds)
            => rank[out[i].kind] <= rank[out[j].kind]

(* C5 as stated: the diagnostics of a record are printed in the order       *)
(* Overflow Error, Source-overflow Warning, Placeholder-count Error,        *)
(* Punctuation-drift Warning, Short-translation Warning.                    *)
C5_ListedOrder == \A nw \in DOMAIN run : InOrder(run[nw].out, ListedOrder)

(* C5 as amended: the diagnostics of a record are printed in the order      *)
(* Source-overflow Warning, Overflow Error, Placeholder-count Error,        *)
(* Punctuation-drift Warning, Short-translation Warning.                    *)
C5_CodeOrder == \A nw \in DOMAIN run : InOrder(run[nw].out, CodeOrder)

\* a record on which all five checks fire
C5_AllFive ==
    \E nw \in DOMAIN run :
        /\ Checked(run[nw])
        /\ \A k \in {"SourceLonger", "TextLonger", "UnequalPercent",
                     "LastPunctuation", "ShortTranslation"} :
               HasKind(run[nw].out, k)

(* C6 as stated: the Overflow Error fires exactly when, for rows = 1, the   *)
(* translation is longer than columns and, for rows > 1, the translation    *)
(* wraps to more lines than rows.                                           *)
C6_OverflowByLength ==
    \A nw \in DOMAIN run :
        LET r == run[nw] IN
        Checked(r) =>
            (HasKind(r.out, "TextLonger") <=>
                IF Val(r.rows) = 1
                THEN Len(Val(r.translation)) > Val(r.cols)
                ELSE Len(r.wrapped_translation) > Val(r.rows))

(* C6 as amended: the Overflow Error fires exactly when the translation     *)
(* wraps to more lines than rows or, for rows = 1, is longer than columns;  *)
(* for rows = 1 and a translation without a tab character that is exactly   *)
(* when the translation is longer than columns.                             *)
C6_Overflow ==
    \A nw \in DOMAIN run :
        LET r == run[nw]
            t == Val(r.translation)
            fires == HasKind(r.out, "TextLonger")
        IN  Checked(r) =>
            /\ fires <=> \/ Len(r.wrapped_translation) > Val(r.rows)
                         \/ Val(r.rows) = 1 /\ Len(t) > Val(r.cols)
            /\ (Val(r.rows) = 1 /\ \A i \in 1..Len(t) : t[i] # TAB)
                   => (fires <=> Len(t) > Val(r.cols))

\* a single-row record whose translation is one character too long
C6_OneTooLong ==
    \E nw \in DOMAIN run :
        LET r == run[nw] IN
        /\ Checked(r) /\ Val(r.rows) = 1
        /\ Len(Val(r.translation)) = Val(r.cols) + 1
        /\ Len(r.wrapped_translation) = 1
        /\ HasKind(r.out, "TextLonger")

(* C7: the Placeholder-count Error fires for a record if and only if the    *)
(* source and the translation hold different numbers of '%' and the         *)
(* translation is not empty.                                                *)
C7_Placeholder ==
    \A nw \in DOMAIN run :
        LET r == run[nw] IN
        Checked(r) =>
            (HasKind(r.out, "UnequalPercent") <=>
                /\ count(Val(r.source), "%") # count(Val(r.translation), "%")
                /\ Val(r.translation) # <<>>)

\* two '%' in the source, one in a translation: the error is printed
C7_TwoAgainstOne ==
    \E nw \in DOMAIN run :
        LET r == run[nw] IN
        /\ Checked(r)
        /\ count(Val(r.source), "%") = 2
        /\ count(Val(r.translation), "%") = 1
        /\ HasKind(r.out, "UnequalPercent")

(* C8: a translation that is empty after decoding never triggers the        *)
(* Short-translation warning nor the Punctuation-drift warning.             *)
C8_EmptyTranslationQuiet ==
    \A nw \in DOMAIN run :
        LET r == run[nw] IN
        (Checked(r) /\ Val(r.translation) = <<>>) =>
            /\ ~HasKind(r.out, "ShortTranslation")
            /\ ~HasKind(r.out, "FirstPunctuation")
            /\ ~HasKind(r.out, "LastPunctuation")
            /\ r.pc # "except"

\* the reserved line \x00 as the translation of a longer source, checked
\* with warnings enabled
C8_SentinelChecked ==
    \E nw \in DOMAIN run :
        LET r == run[nw] IN
        /\ nw = FALSE /\ Checked(r) /\ r.pc = "exited"
        /\ file[3] = TextLine(SENTINEL)
        /\ Val(r.translation) = <<>>
        /\ Val(r.source) = <<"a", "a", "a">>

----------------------------------------------------------------------------
(* C9: the line counter starts at 1 and advances by 4 per completed frame:  *)
(* while the k-th frame is parsed and checked it equals 4(k-1)+1, the file  *)
(* line of that frame's directive, and every diagnostic printed for the     *)
(* frame reports that number.                                               *)
C9_LineCounter ==
    \A nw \in DOMAIN run :
        LET r == run[nw] IN
        /\ r.pc = "parse" => r.lines = 4 * r.frame + 1
        /\ r.pc = "check" =>
               /\ r.lines = 4 * (r.frame - 1) + 1
               /\ r.at # 0 => r.lines = r.at
        /\ \A i \in 1..Len(r.out) :
               r.out[i].line = 4 * (r.out[i].frame - 1) + 1

\* both the first and the second frame of a file printed an Error
C9_SecondFrameReported ==
    \E nw \in DOMAIN run :
        LET r == run[nw] IN
        /\ r.pc = "exited"
        /\ \E i, j \in 1..Len(r.out) :
               /\ r.out[i].frame = 1 /\ r.out[i].kind = "TextLonger"
               /\ r.out[j].frame = 2 /\ r.out[j].kind = "UnequalPercent"
               /\ r.out[j].line = 5

----------------------------------------------------------------------------
(* Properties of the text wrapper *)

\* text.split(): the words of a text
RECURSIVE WordsFrom(_, _)
WordsFrom(text, cur) ==
    IF text = <<>> THEN (IF cur = <<>> THEN <<>> ELSE <<cur>>)
    ELSE IF Head(text) \in Whitespace
    THEN (IF cur = <<>> THEN <<>> ELSE <<cur>>) \o WordsFrom(Tail(text), <<>>)
    ELSE WordsFrom(Tail(text), Append(cur, Head(text)))

Words(text) == WordsFrom(text, <<>>)

\* sep.join(parts) for a one-character separator
RECURSIVE join_with(_, _)
join_with(parts, sep) ==
    IF parts = <<>> THEN <<>>
    ELSE IF Len(parts) = 1 THEN parts[1]
    ELSE parts[1] \o <<sep>> \o join_with(Tail(parts), sep)

IsInk(c) == c \notin Whitespace

\* the source of the first record has been wrapped
Wrapped(r) == r.frame = 1 /\ r.source # None

(* C10 as stated: for every width and text the wrapper breaks only at       *)
(* whitespace and never splits a word, so the fragments joined with single  *)
(* spaces are the original text up to whitespace normalisation.             *)
C10_WordsAtomic ==
    \A nw \in DOMAIN run :
        LET r == run[nw] IN
        Wrapped(r) =>
            Words(join_with(r.wrapped_source, " ")) = Words(Val(r.source))

(* C10 as amended: the wrapper breaks at whitespace, inside a word that is  *)
(* longer than the width and after a hyphen inside a word, and never drops  *)
(* or reorders a non-whitespace character; for a text whose words are no    *)
(* longer than the width and hold no hyphen, no word is split and the       *)
(* fragments joined with single spaces are the original text up to          *)
(* whitespace normalisation.                                                *)
C10_ShortWordsAtomic ==
    \A nw \in DOMAIN run :
        LET r == run[nw]
            ws == Words(Val(r.source))
        IN  Wrapped(r) =>
            /\ SelectSeq(join(r.wrapped_source), IsInk)
                   = SelectSeq(Val(r.source), IsInk)
            /\ (\A i \in 1..Len(ws) :
                    /\ Len(ws[i]) <= Val(r.cols)
                    /\ \A k \in 1..Len(ws[i]) : ws[i][k] # "-")
                   => Words(join_with(r.wrapped_source, " ")) = ws

\* a text of two short words that is wrapped into two fragments
C10_TwoLines ==
    \E nw \in DOMAIN run :
        LET r == run[nw] IN
        /\ Wrapped(r)
        /\ Val(r.source) = <<"a", "a", " ", "a", "a">>
        /\ r.wrapped_source = <<<<"a", "a">>, <<"a", "a">>>>

----------------------------------------------------------------------------
(* Properties of the display definition and of the frames of a file *)

\* the key=value items of the directive on file line i
DirectiveItems(i) == Tail(split(file[i], " "))

\* the directive on file line i has neither c nor r
NoGeometry(i) == DirectiveItems(i) = <<>>

\* the directive on file line i holds only c=<int> and r=<int> items
GeometryOnly(i) == ~parse_items(DirectiveItems(i), None, None).raised

\* the frame the invocation read last: its directive is file line r.at and
\* its source and translation lines are in the file
InFrame(r) == r.at # 0 /\ r.at + 2 <= Len(file)

\* the decoded source and translation of the frame that starts on line i
OwnSource(i) == unescape(source_text(file[i + 1]))
OwnTranslation(i) == unescape(translation_text(file[i + 2]))

\* both texts of the frame decode and neither is made of whitespace only
\* (the input on which the punctuation check raises, see C4)
TextsSound(i) ==
    /\ ~OwnSource(i).raised /\ ~OwnTranslation(i).raised
    /\ OwnSource(i).value = <<>> \/ strip(OwnSource(i).value, Whitespace) # <<>>
    /\ \/ OwnTranslation(i).value = <<>>
       \/ strip(OwnTranslation(i).value, Whitespace) # <<>>

(* C11: for a frame whose directive has neither c nor r, columns is the     *)
(* length of that frame's own translation, rows is 1 and, with warnings     *)
(* enabled, the missing-definition warning is printed with the frame's line *)
(* number.                                                                  *)
C11_DefaultsFromOwnFrame ==
    \A nw \in DOMAIN run :
        LET r == run[nw] IN
        (InFrame(r) /\ NoGeometry(r.at) /\ TextsSound(r.at)) =>
            /\ r.cols = Some(Len(OwnTranslation(r.at).value))
            /\ r.rows = Some(1)
            /\ ~nw => \E i \in 1..Len(r.out) :
                          /\ r.out[i].kind = "NoDefinition"
                          /\ r.out[i].line = r.at

(* C12: a frame whose directive holds any subset of c=<int> and r=<int>,    *)
(* at any position of the file, the first included, is parsed and checked   *)
(* without a fatal failure.                                                 *)
C12_AnySubsetAccepted ==
    \A nw \in DOMAIN run :
        LET r == run[nw] IN
        (InFrame(r) /\ GeometryOnly(r.at) /\ TextsSound(r.at)) =>
            r.pc \notin {"except", "aborted"}

\* the translations an earlier frame may have left behind, None for no
\* earlier frame
PriorTranslations == {None} \cup {Some(t) : t \in Texts({"a"}, 2)}

\* the frame the invocation is checking, parsed again after an earlier frame
\* whose translation was prior
FrameAfter(r, prior, nw) ==
    parse_frame([NotStarted EXCEPT !.pc = "parse", !.pos = r.at - 1,
                                   !.lines = r.lines, !.frame = r.frame - 1,
                                   !.translation = prior], nw)

IsOfFrame(d, k) == d.frame = k

(* C13: nothing but the line counter persists across frames: the geometry,  *)
(* the texts, the wrapped lines and the diagnostics of the frame being      *)
(* checked are the same whatever the earlier frames of the file were.       *)
C13_FrameAlone ==
    \A nw \in DOMAIN run :
        LET r == run[nw] IN
        (InFrame(r) /\ r.pc = "check") =>
            \A prior \in PriorTranslations :
                LET f == FrameAfter(r, prior, nw) IN
                /\ f.pc = "check"
                /\ f.cols = r.cols /\ f.rows = r.rows
                /\ f.source = r.source /\ f.translation = r.translation
                /\ f.wrapped_source = r.wrapped_source
                /\ f.wrapped_translation = r.wrapped_translation
                /\ f.out = SelectSeq(r.out, LAMBDA d : IsOfFrame(d, r.frame))

\* the file is made of frames with valid c and r and decodable texts,
\* separated by blank lines, with or without a blank line after the last
WellFormedFile ==
    /\ exists /\ FrameCount >= 1
    /\ \A i \in 1..FrameCount : ValidFrame(i)

\* the one-frame file of the end-to-end example, with its separator line
CleanFile ==
    FileOf(<<Frame(<<Item("c", 20), Item("r", 1)>>, <<"a", "b">>,
                   <<"a", "b">>)>>, <<BlankLine>>)

(* C14: a file of k >= 1 well-formed frames followed by end of file yields  *)
(* exactly k records: no record is parsed at the end-of-file position and   *)
(* no diagnostic belongs to a frame beyond the k-th; the one-frame file     *)
(* with c=20 r=1 and equal texts yields one record, no diagnostic and exit  *)
(* status 0.                                                                *)
C14_ExactlyKRecords ==
    \A nw \in DOMAIN run :
        LET r == run[nw] IN
        WellFormedFile =>
            /\ r.frame <= FrameCount
            /\ \A i \in 1..Len(r.out) : r.out[i].frame <= FrameCount
            /\ r.pc = "exited" => r.frame = FrameCount
            /\ (file = CleanFile /\ Finished(r)) =>
                   /\ r.frame = 1 /\ r.out = <<>> /\ r.status = Some(0)

----------------------------------------------------------------------------
\* the places of an invocation from which the program goes on or at which
\* it has left the process, with their order inside one iteration of the loop
Rank ==
    [pc \in {"start", "parse", "check", "end", "except", "exited", "aborted"}
        |-> CASE pc = "start" -> 4
              [] pc = "parse" -> 3
              [] pc = "check" -> 2
              [] pc \in {"end", "except"} -> 1
              [] OTHER -> 0]

\* what an invocation has left to do: the unread lines of the file, then the
\* rest of the iteration
Measure(r) == 5 * (Len(file) - r.pos) + Rank[r.pc]

(* C15: on every finite file the parse loop terminates: every step of an    *)
(* invocation leads to a place from which the program goes on or has left   *)
(* the process (normal end or fatal failure) and strictly decreases a       *)
(* natural number, the unread lines of the file and the rest of the         *)
(* iteration, so no run is infinite; an iteration is begun for at most      *)
(* every fourth line of the file and once more.  This includes the empty    *)
(* file and a file that ends inside a frame.                                *)
C15_Terminates ==
    [][\A nw \in DOMAIN run :
          run'[nw] # run[nw] =>
              /\ run'[nw].pc \in DOMAIN Rank
              /\ run'[nw].pos <= Len(file)
              /\ Measure(run'[nw]) < Measure(run[nw])
              /\ run'[nw].frame <= (Len(file) \div 4) + 1]_vars

\* a file that ends inside its last frame, read to the normal end
C15_TruncatedFileEnds ==
    \E nw \in DOMAIN run :
        /\ Len(file) % 4 \in {1, 2}
        /\ Len(file[Len(file)]) > 1 /\ file[Len(file)][Len(file[Len(file)])] # NL
        /\ run[nw].pc = "exited"

----------------------------------------------------------------------------
(* Properties of the warnings about a record *)

\* the last non-whitespace character of a text, "" when it has none
LastInk(text) ==
    LET t == strip(text, Whitespace)
    IN  IF t = <<>> THEN "" ELSE t[Len(t)]

\* the checks of the first record have run with warnings enabled on a source
\* and a translation that are not empty
WarnedRecord(nw) ==
    /\ ~nw /\ Checked(run[nw])
    /\ Val(run[nw].source) # <<>> /\ Val(run[nw].translation) # <<>>

(* C16: with warnings enabled and both texts non-empty the Short-           *)
(* translation warning is printed if and only if twice the length of the    *)
(* trimmed translation is less than the length of the trimmed source.       *)
C16_ShortIff ==
    \A nw \in DOMAIN run :
        LET r == run[nw] IN
        WarnedRecord(nw) =>
            (HasKind(r.out, "ShortTranslation") <=>
                2 * Len(strip(Val(r.translation), Whitespace))
                    < Len(strip(Val(r.source), Whitespace)))

(* C17: with warnings enabled and both texts non-empty the two positions    *)
(* are decided independently: the first-character warning is printed iff    *)
(* the first characters differ and are not both alphanumeric, '%' or '?';   *)
(* the last-character warning iff the last non-whitespace characters differ *)
(* and are not both alphanumeric, '.' or an apostrophe.                     *)
C17_PunctuationIff ==
    \A nw \in DOMAIN run :
        LET r == run[nw]
            s == Val(r.source)
            t == Val(r.translation)
        IN  WarnedRecord(nw) =>
            /\ HasKind(r.out, "FirstPunctuation") <=>
                   /\ s[1] # t[1]
                   /\ ~(ign_char_first(s[1]) /\ ign_char_first(t[1]))
            /\ (LastInk(s) # "" /\ LastInk(t) # "") =>
                   (HasKind(r.out, "LastPunctuation") <=>
                       /\ LastInk(s) # LastInk(t)
                       /\ ~(ign_char_last(LastInk(s))
                            /\ ign_char_last(LastInk(t))))

(* C18: the two characters a punctuation warning shows are the characters   *)
(* that were compared for its position: the first characters for the start, *)
(* the last non-whitespace characters for the end, also when a text ends in *)
(* whitespace.                                                              *)
C18_ShownAreCompared ==
    \A nw \in DOMAIN run :
        LET r == run[nw]
            s == Val(r.source)
            t == Val(r.translation)
        IN  WarnedRecord(nw) =>
            \A i \in 1..Len(r.out) :
                /\ r.out[i].kind = "FirstPunctuation" =>
                       r.out[i].shown = <<s[1], t[1]>>
                /\ r.out[i].kind = "LastPunctuation" =>
                       r.out[i].shown = <<LastInk(s), LastInk(t)>>

----------------------------------------------------------------------------
(* Properties of the texts and of their wrapping *)

\* a line without its newline and without one leading and one trailing
\* quote, if it has them
one_layer(line) ==
    LET t == drop_last(line)
        a == IF t # <<>> /\ Head(t) = QUOTE THEN Tail(t) ELSE t
    IN  IF a # <<>> /\ a[Len(a)] = QUOTE THEN SubSeq(a, 1, Len(a) - 1) ELSE a

\* the directive on file line i gives a positive c and a positive r
FullGeometry(i) ==
    LET items == parse_items(DirectiveItems(i), None, None)
    IN  /\ ~items.raised
        /\ items.value[1] # None /\ Val(items.value[1]) > 0
        /\ items.value[2] # None /\ Val(items.value[2]) > 0

(* C19: the text of a source or translation line is the line without its    *)
(* newline and without exactly one leading and one trailing quote; every    *)
(* other character, a quote of the content next to a delimiter included,    *)
(* reaches the escape decoder, so the record holds the decoded remainder.   *)
C19_OneLayerOfQuotes ==
    \A nw \in DOMAIN run :
        LET r == run[nw] IN
        (InFrame(r) /\ FullGeometry(r.at)) =>
            LET s == unescape(one_layer(file[r.at + 1]))
                t0 == one_layer(file[r.at + 2])
                t == unescape(IF t0 = SENTINEL THEN <<>> ELSE t0)
            IN  (~s.raised /\ ~t.raised) =>
                    /\ r.source = Some(s.value)
                    /\ r.translation = Some(t.value)

(* C20: every fragment of wrapped_source and of wrapped_translation is at   *)
(* most columns long, for every text and every columns >= 1.                *)
C20_FragmentsFit ==
    \A nw \in DOMAIN run :
        LET r == run[nw] IN
        r.cols # None =>
            /\ \A i \in 1..Len(r.wrapped_source) :
                   Len(r.wrapped_source[i]) <= Val(r.cols)
            /\ \A i \in 1..Len(r.wrapped_translation) :
                   Len(r.wrapped_translation[i]) <= Val(r.cols)

\* a translation of one word longer than two columns, broken into fragments
\* of two characters
C20_LongWordBroken ==
    \E nw \in DOMAIN run :
        LET r == run[nw] IN
        /\ Wrapped(r) /\ r.pc = "check" /\ r.cols = Some(2)
        /\ Val(r.translation) = <<"a", "a", "a", "a", "a">>
        /\ r.wrapped_translation = <<<<"a", "a">>, <<"a", "a">>, <<"a">>>>

====
